---- MODULE Spec2Model ----
(***************************************************************************)
(* A model of update-docker-tags (latest variant of the program, source    *)
(* lines 650-1071): the submatch rewriter replaceAllSubmatchFunc, the      *)
(* version resolver repository.findLatestSemverTag and the per-file driver *)
(* updateDockerTags with main's start-up and walk.                         *)
(*                                                                         *)
(* Byte strings ([]byte and string) are sequences of one-character         *)
(* strings.  Go's 0-based half-open slices src[a:b] are the operator       *)
(* Slice(src, a, b).                                                       *)
(***************************************************************************)
EXTENDS Integers, Sequences, FiniteSets, TLC

VARIABLES
    pc,           \* where main is: "start", "flags", "constraints", "walk", "file",
                  \* "done" (returned), "fatal" (exited with fatalErr)
    flagArgs,     \* the values of the --constraint flags on the command line
    constraintArgs, \* the rawConstraints that flag.Parse built with Set
    patternArg,   \* the --pattern flag: "default" or "malformed"
    constraints,  \* options.constraints: function from image name to parsed constraint
    roots,        \* options.filePaths, each root given as the sequence of files Walk visits
    rootIdx,      \* index of the root being walked
    fileIdx,      \* index of the file within the root
    cur,          \* the file the walk function was last called for
    disk,         \* file id -> bytes on disk
    disk0,        \* file id -> bytes on disk when the program started
    data,         \* bytes read from the current file
    matches,      \* re.FindAllSubmatchIndex(data, -1)
    mi,           \* number of matches already handed to the callback
    result,       \* replaceAllSubmatchFunc's result so far (or Panic)
    last,         \* replaceAllSubmatchFunc's "last"
    replaceErr,   \* the side-channel error of the callback
    log,          \* one record per callback invocation of the current file
    fileState,    \* file id -> "untouched" | "open" | "written" | "failed"
    authCalls,    \* number of fetchAuthToken calls per repository name
    tagCalls,     \* number of fetchAllTags calls per repository name
    fatalErr,     \* the error main died with
    fn            \* a call of a pure function: [op, in, out]

vars == <<pc, flagArgs, constraintArgs, patternArg, constraints, roots, rootIdx,
          fileIdx, cur, disk, disk0, data, matches, mi, result, last, replaceErr, log,
          fileState, authCalls, tagCalls, fatalErr, fn>>

-----------------------------------------------------------------------------
(* Bytes *)

DigitChars == <<"0", "1", "2", "3", "4", "5", "6", "7", "8", "9">>
UpperChars == <<"A", "B", "C", "D", "E", "F", "G", "H", "I", "J", "K", "L", "M",
                "N", "O", "P", "Q", "R", "S", "T", "U", "V", "W", "X", "Y", "Z">>
LowerChars == <<"a", "b", "c", "d", "e", "f", "g", "h", "i", "j", "k", "l", "m",
                "n", "o", "p", "q", "r", "s", "t", "u", "v", "w", "x", "y", "z">>

\* The bytes '-', '0'..'9', 'A'..'Z', 'a'..'z' in increasing byte value.
ByteOrder == <<"-">> \o DigitChars \o UpperChars \o LowerChars

Range(s) == {s[i] : i \in 1..Len(s)}

IsDigit(c) == c \in Range(DigitChars)
IsAlnum(c) == c \in Range(DigitChars) \cup Range(UpperChars) \cup Range(LowerChars)
\* \w of Go's regexp: [0-9A-Za-z_]
IsWordChar(c) == IsAlnum(c) \/ c = "_"

DigitVal(c) == (CHOOSE i \in 1..10 : DigitChars[i] = c) - 1
ByteVal(c) == CHOOSE i \in 1..Len(ByteOrder) : ByteOrder[i] = c

\* Go's src[a:b]: bytes a..b-1 (0-based).  Valid iff 0 <= a <= b <= len(src).
SliceOK(src, a, b) == 0 <= a /\ a <= b /\ b <= Len(src)
Slice(src, a, b) == SubSeq(src, a + 1, b)

\* strings.Index of a single byte: the 1-based position of the first c in s, 0 if none.
IndexOf(s, c) ==
    IF \E i \in 1..Len(s) : s[i] = c
    THEN CHOOSE i \in 1..Len(s) : s[i] = c /\ \A j \in 1..(i - 1) : s[j] # c
    ELSE 0

\* strings.Split(s, sep) for a one-byte separator.
RECURSIVE Split(_, _)
Split(s, sep) ==
    LET i == IndexOf(s, sep)
    IN IF i = 0 THEN <<s>>
       ELSE <<SubSeq(s, 1, i - 1)>> \o Split(SubSeq(s, i + 1, Len(s)), sep)

\* strings.Contains(s, "/") and the like, for one byte.
Contains(s, c) == IndexOf(s, c) # 0

\* Go's string comparison s < o: lexicographic by byte value.
RECURSIVE StrLess(_, _)
StrLess(s, o) ==
    IF o = <<>> THEN FALSE
    ELSE IF s = <<>> THEN TRUE
    ELSE IF s[1] # o[1] THEN ByteVal(s[1]) < ByteVal(o[1])
    ELSE StrLess(Tail(s), Tail(o))

\* strconv.ParseUint(s, 10, 64) succeeds.
IsNumeric(s) == s # <<>> /\ \A i \in 1..Len(s) : IsDigit(s[i])

RECURSIVE ParseUint(_)
ParseUint(s) ==
    IF s = <<>> THEN 0
    ELSE 10 * ParseUint(SubSeq(s, 1, Len(s) - 1)) + DigitVal(s[Len(s)])

-----------------------------------------------------------------------------
(* github.com/Masterminds/semver as the program uses it *)

\* One dot-separated identifier of a prerelease or of build metadata: [0-9A-Za-z-]+
IsIdent(s) == s # <<>> /\ \A i \in 1..Len(s) : IsAlnum(s[i]) \/ s[i] = "-"
IsIdentList(s) == \A p \in Range(Split(s, ".")) : IsIdent(p)

NoVersion == [ok |-> FALSE]

\* semver.NewVersion(tag): v?NUM(.NUM)?(.NUM)?(-PRE)?(+META)?, anchored at both
\* ends; a missing minor or patch is 0 and the spelling is kept in "original".
NewVersion(tag) ==
    LET body  == IF tag # <<>> /\ tag[1] = "v" THEN Tail(tag) ELSE tag
        plus  == IndexOf(body, "+")
        front == IF plus = 0 THEN body ELSE SubSeq(body, 1, plus - 1)
        meta  == IF plus = 0 THEN <<>> ELSE SubSeq(body, plus + 1, Len(body))
        dash  == IndexOf(front, "-")
        nums  == IF dash = 0 THEN front ELSE SubSeq(front, 1, dash - 1)
        pre   == IF dash = 0 THEN <<>> ELSE SubSeq(front, dash + 1, Len(front))
        parts == Split(nums, ".")
    IN IF /\ Len(parts) \in 1..3
          /\ \A i \in 1..Len(parts) : IsNumeric(parts[i])
          /\ (dash # 0 => IsIdentList(pre))
          /\ (plus # 0 => IsIdentList(meta))
       THEN [ok       |-> TRUE,
             major    |-> ParseUint(parts[1]),
             minor    |-> IF Len(parts) >= 2 THEN ParseUint(parts[2]) ELSE 0,
             patch    |-> IF Len(parts) >= 3 THEN ParseUint(parts[3]) ELSE 0,
             pre      |-> pre,
             metadata |-> meta,
             original |-> tag]
       ELSE NoVersion

\* comparePrePart of the semver package.
ComparePrePart(s, o) ==
    IF s = o THEN 0
    ELSE IF s = <<>> THEN -1
    ELSE IF o = <<>> THEN 1
    ELSE IF ~IsNumeric(s) /\ ~IsNumeric(o) THEN (IF StrLess(o, s) THEN 1 ELSE -1)
    ELSE IF ~IsNumeric(o) THEN -1
    ELSE IF ~IsNumeric(s) THEN 1
    ELSE IF ParseUint(s) > ParseUint(o) THEN 1 ELSE -1

\* comparePrerelease: identifier by identifier, a missing identifier being "".
RECURSIVE ComparePreParts(_, _)
ComparePreParts(sp, op) ==
    IF sp = <<>> /\ op = <<>> THEN 0
    ELSE LET d == ComparePrePart(IF sp = <<>> THEN <<>> ELSE sp[1],
                                 IF op = <<>> THEN <<>> ELSE op[1])
         IN IF d # 0 THEN d
            ELSE ComparePreParts(IF sp = <<>> THEN <<>> ELSE Tail(sp),
                                 IF op = <<>> THEN <<>> ELSE Tail(op))

CompareSegment(a, b) == IF a < b THEN -1 ELSE IF a > b THEN 1 ELSE 0

\* Version.Compare: major, minor, patch, then the prerelease (a release is above
\* its prereleases); build metadata takes no part.
Compare(v, o) ==
    IF CompareSegment(v.major, o.major) # 0 THEN CompareSegment(v.major, o.major)
    ELSE IF CompareSegment(v.minor, o.minor) # 0 THEN CompareSegment(v.minor, o.minor)
    ELSE IF CompareSegment(v.patch, o.patch) # 0 THEN CompareSegment(v.patch, o.patch)
    ELSE IF v.pre = <<>> /\ o.pre = <<>> THEN 0
    ELSE IF v.pre = <<>> THEN 1
    ELSE IF o.pre = <<>> THEN -1
    ELSE ComparePreParts(Split(v.pre, "."), Split(o.pre, "."))

LessThan(v, o) == Compare(v, o) < 0

-----------------------------------------------------------------------------
(* Errors: an error is the sequence of the parts of its message, each part a *)
(* byte string; a literal piece of text is a one-element part.  nil is <<>>. *)

Nil == <<>>
Lit(text) == <<text>>
Errorf(parts) == parts
\* errors.Wrap / errors.Wrapf: "<message>: <cause>"
Wrap(err, parts) == parts \o <<Lit(": ")>> \o err
\* The message names the byte string x.
Names(err, x) == \E i \in 1..Len(err) : err[i] = x

-----------------------------------------------------------------------------
(* Constraints *)

NilConstraint == [ok |-> FALSE]

ConstraintOps == {<<>>, <<"=">>, <<"<">>, <<">">>, <<"<", "=">>, <<">", "=">>}

\* The length of the run of operator bytes a constraint string starts with.
RECURSIVE OpLen(_)
OpLen(c) ==
    IF c # <<>> /\ c[1] \in {"<", ">", "=", "!", "~", "^"} THEN 1 + OpLen(Tail(c)) ELSE 0

\* semver.NewConstraint for one comparison "OP VERSION" with a full version (no
\* wildcard, range or "||"); raw keeps the string as the user wrote it.
NewConstraint(c) ==
    LET n  == OpLen(c)
        op == SubSeq(c, 1, n)
        v  == NewVersion(SubSeq(c, n + 1, Len(c)))
    IN IF op \in ConstraintOps /\ v.ok
       THEN [ok |-> TRUE, op |-> op, con |-> v, raw |-> c]
       ELSE NilConstraint

\* The comparison an operator stands for, cmp being v.Compare(c.con).
CheckOp(op, cmp) ==
    IF op \in {<<>>, <<"=">>} THEN cmp = 0
    ELSE IF op = <<"<">> THEN cmp < 0
    ELSE IF op = <<">">> THEN cmp = 1
    ELSE IF op = <<"<", "=">> THEN cmp <= 0
    ELSE cmp >= 0

\* Constraints.Check(v).  But for equality, a prerelease version is not accepted by
\* a constraint that names no prerelease.
Check(c, v) ==
    /\ (c.op \in {<<>>, <<"=">>} \/ v.pre = <<>> \/ c.con.pre # <<>>)
    /\ CheckOp(c.op, Compare(v, c.con))

\* rawConstraints.Set(value) appended to rc: [err, rc].
Set(rc, value) ==
    LET splits == Split(value, "=")
    IN IF Len(splits) # 2
       THEN [err |-> Errorf(<<Lit("unable to split constraint "), value>>), rc |-> rc]
       ELSE [err |-> Nil,
             rc  |-> Append(rc, [image |-> splits[1], constraint |-> splits[2]])]

EmptyMap == [x \in {} |-> NilConstraint]

\* rawConstraints.parse: [err, out]; a later entry for an image replaces an earlier one.
RECURSIVE ParseFrom(_, _)
ParseFrom(rc, out) ==
    IF rc = <<>> THEN [err |-> Nil, out |-> out]
    ELSE LET raw    == rc[1]
             parsed == NewConstraint(raw.constraint)
         IN IF ~parsed.ok
            THEN [err |-> Errorf(<<Lit("cannot parse constraint "), raw.constraint>>),
                  out |-> EmptyMap]
            ELSE ParseFrom(Tail(rc),
                           [x \in DOMAIN out \cup {raw.image} |->
                               IF x = raw.image THEN parsed ELSE out[x]])

Parse(rc) == ParseFrom(rc, EmptyMap)

\* o.constraints[key]: nil for a missing key.
Lookup(m, key) == IF key \in DOMAIN m THEN m[key] ELSE NilConstraint

-----------------------------------------------------------------------------
(* repository *)

DockerHub == <<"https://index.docker.io/v2/">>

\* parseRegistry after strings.Split.
ParseRegistryVal(reg, val) ==
    IF Len(val) < 3 THEN [err |-> Nil, registry |-> DockerHub, repo |-> reg]
    ELSE IF Len(val) > 3
    THEN [err |-> Errorf(<<Lit("parsing error, expected to contain only 3 /"), reg>>),
          registry |-> <<>>, repo |-> <<>>]
    ELSE [err |-> Nil,
          registry |-> <<"https://">> \o val[1] \o <<"/v2/">>,
          repo |-> val[2] \o <<"/">> \o val[3]]

\* parseRegistry(reg): [err, registry, repo]
ParseRegistry(reg) == ParseRegistryVal(reg, Split(reg, "/"))

QualifyRepository(repositoryName) ==
    IF Contains(repositoryName, "/") THEN repositoryName
    ELSE <<"l", "i", "b", "r", "a", "r", "y", "/">> \o repositoryName


\* The registry compared with a URL that parseRegistry never returns.
IsDockerHubNever(pr) == FALSE

\* The test registry == "https://index.docker.io/v2/" that guards fetchAuthToken.
IsDockerHub(pr) == pr.err = Nil /\ pr.registry = DockerHub
NeedsToken(repositoryName) == IsDockerHub(ParseRegistry(QualifyRepository(repositoryName)))

\* newRepository after parseRegistry, name being the qualified name and pr what
\* parseRegistry returned.
NewRepositoryAt(cons, name, pr, auth) ==
    IF pr.err # Nil THEN [err |-> pr.err, repo |-> [name |-> name]]
    ELSE IF IsDockerHub(pr) /\ auth.err # Nil
    THEN [err |-> Wrap(auth.err, <<Lit("when fetching auth token")>>),
          repo |-> [name |-> name]]
    ELSE [err  |-> Nil,
          repo |-> [name       |-> name,
                    registry   |-> pr.registry,
                    repo       |-> pr.repo,
                    constraint |-> Lookup(cons, name),
                    authToken  |-> IF IsDockerHub(pr) THEN auth.token ELSE <<>>]]

\* newRepository after qualifyRepository.
NewRepositoryNamed(cons, name, auth) ==
    NewRepositoryAt(cons, name, ParseRegistry(name), auth)

\* newRepository(o, repositoryName) given fetchAuthToken's answer auth = [err, token]
\* (read only when a token is needed): [err, repo].
NewRepository(cons, repositoryName, auth) ==
    NewRepositoryNamed(cons, QualifyRepository(repositoryName), auth)


\* Every tag taken for a semantic version.
IsNonSemverTagNever(tag) == FALSE

IsNonSemverTag(tag) == ~NewVersion(tag).ok

\* The body of findLatestSemverTag's loop for a tag that parsed to v: whether v is
\* appended to versions.
Keep(v, constraint) == v.ok /\ (constraint.ok => Check(constraint, v))

\* The loop of findLatestSemverTag: the parseable tags the constraint accepts, in
\* the order of the tag list.
Versions(tags, constraint) ==
    SelectSeq([i \in 1..Len(tags) |-> NewVersion(tags[i])], LAMBDA v : Keep(v, constraint))

\* sort.Reverse(semver.Collection(versions)).Less(i, j), 1-based.
ReverseLess(vs, i, j) == LessThan(vs[j], vs[i])

Swap(vs, i, j) == [vs EXCEPT ![i] = vs[j], ![j] = vs[i]]

\* The inner loop of sort's insertionSort: sink element j towards the front.
RECURSIVE Sink(_, _)
Sink(vs, j) ==
    IF j > 1 /\ ReverseLess(vs, j, j - 1) THEN Sink(Swap(vs, j, j - 1), j - 1) ELSE vs

RECURSIVE InsertionSort(_, _)
InsertionSort(vs, i) ==
    IF i > Len(vs) THEN vs ELSE InsertionSort(Sink(vs, i), i + 1)


\* The sort left out: versions[0] is the first tag that was kept.
SortReverseNone(vs) == vs

\* sort.Sort(sort.Reverse(semver.Collection(versions))) where the sort package does
\* the insertion sort alone: on at most 6 versions in every release of Go, on at
\* most 12 versions from Go 1.19 on.
SortReverse(vs) == InsertionSort(vs, 2)

\* quickSort's pass for 7 to 12 elements up to Go 1.18, from element i on:
\*   for i := a + 6; i < b; i++ { if data.Less(i, i-6) { data.Swap(i, i-6) } }
RECURSIVE ShellPass(_, _)
ShellPass(vs, i) ==
    IF i > Len(vs) THEN vs
    ELSE ShellPass(IF ReverseLess(vs, i, i - 6) THEN Swap(vs, i, i - 6) ELSE vs, i + 1)

\* sort.Sort(sort.Reverse(semver.Collection(versions))) on at most 12 versions up
\* to Go 1.18: the pass with gap 6, then the insertion sort.
SortReverseShell(vs) == InsertionSort(ShellPass(vs, 7), 2)


\* The error of an empty selection without the repository's name.
LatestUnnamed(r, versions) ==
    IF Len(versions) = 0
    THEN [err |-> Errorf(<<Lit("no semver tags found")>>), tag |-> <<>>]
    ELSE [err |-> Nil, tag |-> SortReverse(versions)[1].original]

\* The end of findLatestSemverTag, from "if len(versions) == 0" on.
Latest(r, versions) ==
    IF Len(versions) = 0
    THEN [err |-> Errorf(<<Lit("no semver tags found for "), r.name>>), tag |-> <<>>]
    ELSE [err |-> Nil, tag |-> SortReverse(versions)[1].original]

\* repository.findLatestSemverTag given fetchAllTags's answer resp = [err, tags]:
\* [err, tag].
FindLatestSemverTag(r, resp) ==
    IF resp.err # Nil
    THEN [err |-> Wrap(resp.err, <<Lit("when fetching all tags")>>), tag |-> <<>>]
    ELSE Latest(r, Versions(resp.tags, r.constraint))

\* The releases of Go's sort package the program can be built with: sort.Sort does
\* not promise to keep equal elements in order, and the releases differ in it.
Builds == {"go1.18", "go1.19"}

\* repository.findLatestSemverTag as built with a release of Go, for at most 12
\* versions.
FindLatestSemverTagOn(build, r, resp) ==
    IF build = "go1.18" /\ resp.err = Nil /\ Len(Versions(resp.tags, r.constraint)) > 6
    THEN [err |-> Nil, tag |-> SortReverseShell(Versions(resp.tags, r.constraint))[1].original]
    ELSE FindLatestSemverTag(r, resp)

-----------------------------------------------------------------------------
(* regexp: the default pattern                                              *)
(*   \b([[:alnum:]/\.\-]+):(.+)@(sha256:[[:alnum:]]+)\b                     *)
(* Offsets are Go's: 0-based, the byte at offset p is src[p + 1].           *)

Sha == <<"s", "h", "a", "2", "5", "6", ":">>

IsRepoChar(c) == IsAlnum(c) \/ c \in {"/", ".", "-"}

\* \b at offset p: exactly one of the bytes before and after p is a word byte.
WordBoundary(src, p) ==
    (p > 0 /\ IsWordChar(src[p])) # (p < Len(src) /\ IsWordChar(src[p + 1]))

\* Every byte of src[a:b] satisfies the class.
AllRepo(src, a, b) == \A i \in (a + 1)..b : IsRepoChar(src[i])
AllDot(src, a, b) == \A i \in (a + 1)..b : src[i] # "\n"
AllAlnum(src, a, b) == \A i \in (a + 1)..b : IsAlnum(src[i])

\* src has the bytes lit at offset p.
HasAt(src, p, lit) == p + Len(lit) <= Len(src) /\ Slice(src, p, p + Len(lit)) = lit

\* The ends group 1 can have for a match starting at s: a run of repository bytes
\* followed by ':'.
Ends1(src, s) ==
    {e \in (s + 1)..Len(src) : AllRepo(src, s, e) /\ HasAt(src, e, <<":">>)}

\* The ends group 2 can have when group 1 ends at e1: a run of bytes other than
\* '\n' followed by "@sha256:".
Ends2(src, e1) ==
    {e \in (e1 + 2)..Len(src) : AllDot(src, e1 + 1, e) /\ HasAt(src, e, <<"@">> \o Sha)}

\* The ends group 3 can have when group 2 ends at e2: "sha256:", a run of
\* alphanumerics, and \b.
Ends3(src, e2) ==
    {e \in (e2 + 2 + Len(Sha))..Len(src) :
        AllAlnum(src, e2 + 1 + Len(Sha), e) /\ WordBoundary(src, e)}

\* The ways the pattern matches at offset s: <<e1, e2, e3>>, the ends of the groups.
MatchEnds(src, s) ==
    IF ~WordBoundary(src, s) THEN {}
    ELSE UNION {UNION {{<<e1, e2, e3>> : e3 \in Ends3(src, e2)} : e2 \in Ends2(src, e1)} :
                e1 \in Ends1(src, s)}

\* The greedy operators prefer the longest group 1, then the longest group 2, then
\* the longest group 3.
Preferred(E) ==
    CHOOSE e \in E : \A f \in E :
        \/ e[1] > f[1]
        \/ e[1] = f[1] /\ e[2] > f[2]
        \/ e[1] = f[1] /\ e[2] = f[2] /\ e[3] >= f[3]

\* One element of FindAllSubmatchIndex: <<start, end, g1s, g1e, g2s, g2e, g3s, g3e>>.
MatchAt(src, s) ==
    LET e == Preferred(MatchEnds(src, s))
    IN <<s, e[3], s, e[1], e[1] + 1, e[2], e[2] + 1, e[3]>>

\* re.FindAllSubmatchIndex(src, -1) from offset pos: leftmost match first, the next
\* search starting where the match ended.
RECURSIVE FindFrom(_, _)
FindFrom(src, pos) ==
    LET starts == {s \in pos..Len(src) : MatchEnds(src, s) # {}}
    IN IF starts = {} THEN <<>>
       ELSE LET s == CHOOSE x \in starts : \A y \in starts : x <= y
                m == MatchAt(src, s)
            IN <<m>> \o FindFrom(src, m[2])

FindAllSubmatchIndex(src) == FindFrom(src, 0)

-----------------------------------------------------------------------------
(* replaceAllSubmatchFunc *)

\* A run-time panic (slice bounds out of range, index out of range).
Panic == <<"panic: runtime error">>

\* groupIndices of a match: the pairs after the first.
GroupIndices(match) ==
    [i \in 1..((Len(match) - 2) \div 2) |-> <<match[2 * i + 1], match[2 * i + 2]>>]

\* The loop at "for i := 2; i < len(match); i += 2": src[start:end] of every group,
\* or a panic for a slice that is out of range (a group that did not take part in
\* the match has the indices -1, -1).
GroupsOf(src, match) ==
    LET gi == GroupIndices(match)
    IN IF \A i \in 1..Len(gi) : SliceOK(src, gi[i][1], gi[i][2])
       THEN [i \in 1..Len(gi) |-> Slice(src, gi[i][1], gi[i][2])]
       ELSE <<Panic>>


\* The groups appended without the bytes between them.
RECURSIVE AppendGroupsOnly(_, _, _, _, _, _)
AppendGroupsOnly(res, src, lastGroup, gi, groups, i) ==
    IF i > Len(groups) THEN [result |-> res, lastGroup |-> lastGroup]
    ELSE IF i > Len(gi) \/ ~SliceOK(src, lastGroup, gi[i][1])
    THEN [result |-> Panic, lastGroup |-> lastGroup]
    ELSE AppendGroupsOnly(res \o groups[i], src, gi[i][2], gi, groups, i + 1)

\* The loop "for i, newValue := range groups" from group i on.
RECURSIVE AppendGroups(_, _, _, _, _, _)
AppendGroups(res, src, lastGroup, gi, groups, i) ==
    IF i > Len(groups) THEN [result |-> res, lastGroup |-> lastGroup]
    ELSE IF i > Len(gi) \/ ~SliceOK(src, lastGroup, gi[i][1])
    THEN [result |-> Panic, lastGroup |-> lastGroup]
    ELSE AppendGroups(res \o Slice(src, lastGroup, gi[i][1]) \o groups[i],
                      src, gi[i][2], gi, groups, i + 1)

\* The part of the loop body before "groups = repl(groups)".
BeforeRepl(res, src, lst, match) ==
    IF ~SliceOK(src, lst, match[1]) THEN Panic ELSE res \o Slice(src, lst, match[1])

\* The part of the loop body after "groups = repl(groups)", newGroups being what the
\* callback returned.
AfterRepl(res, src, match, newGroups) ==
    LET a == AppendGroups(res, src, match[1], GroupIndices(match), newGroups, 1)
    IN IF a.result = Panic \/ ~SliceOK(src, a.lastGroup, match[2]) THEN Panic
       ELSE a.result \o Slice(src, a.lastGroup, match[2])

\* The statement after the loop.
Remaining(res, src, lst) == res \o Slice(src, lst, Len(src))

\* The callbacks the rewriter is exercised with on its own: "same" returns every
\* group as it got it, "tag" replaces the second group by val.
Repl(cb, groups) ==
    IF cb.kind = "same" THEN groups
    ELSE [i \in 1..Len(groups) |-> IF i = 2 THEN cb.val ELSE groups[i]]

\* replaceAllSubmatchFunc(re, src, repl, -1) from match k on, matches being
\* re.FindAllSubmatchIndex(src, -1).
RECURSIVE ReplaceFrom(_, _, _, _, _, _)
ReplaceFrom(res, lst, src, matches_, cb, k) ==
    IF k > Len(matches_) THEN Remaining(res, src, lst)
    ELSE LET match == matches_[k]
             pre   == BeforeRepl(res, src, lst, match)
             gs    == GroupsOf(src, match)
         IN IF pre = Panic \/ gs = <<Panic>> THEN Panic
            ELSE LET post == AfterRepl(pre, src, match, Repl(cb, gs))
                 IN IF post = Panic THEN Panic
                    ELSE ReplaceFrom(post, match[2], src, matches_, cb, k + 1)

ReplaceAllSubmatchFunc(matches_, src, cb) == ReplaceFrom(<<>>, 0, src, matches_, cb, 1)

\* The matches repl is called for, in the order of the calls, from match k on: the
\* loop calls it once in every turn it gets to, and a panic before or after the call
\* ends the loop.
RECURSIVE InvocationsFrom(_, _, _, _, _, _)

\* The calls after the k-th match was spliced into post.
InvocationsAfter(post, src, matches_, cb, k) ==
    IF post = Panic THEN <<>>
    ELSE InvocationsFrom(post, matches_[k][2], src, matches_, cb, k + 1)

InvocationsFrom(res, lst, src, matches_, cb, k) ==
    IF k > Len(matches_) THEN <<>>
    ELSE IF BeforeRepl(res, src, lst, matches_[k]) = Panic
            \/ GroupsOf(src, matches_[k]) = <<Panic>>
    THEN <<>>
    ELSE <<k>> \o InvocationsAfter(AfterRepl(BeforeRepl(res, src, lst, matches_[k]), src,
                                             matches_[k],
                                             Repl(cb, GroupsOf(src, matches_[k]))),
                                   src, matches_, cb, k)

Invocations(matches_, src, cb) == InvocationsFrom(<<>>, 0, src, matches_, cb, 1)

-----------------------------------------------------------------------------
(* The registry, as fetchAuthToken, fetchAllTags and fetchImageDigest see it *)

\* A transport error of net/http.
NetErr == Errorf(<<Lit("dial tcp: i/o timeout")>>)
DecodeErr == Errorf(<<Lit("invalid character '<' looking for beginning of value")>>)

\* fetchAuthToken(repositoryName) given the token endpoint's answer: [err, token].
FetchAuthToken(repositoryName, answer) ==
    IF answer = "neterr" THEN [err |-> NetErr, token |-> <<>>]
    ELSE [err |-> Nil, token |-> <<"token">>]

\* repository.fetchAllTags() given the registry's answer to GET .../tags/list:
\* a transport error ("neterr"), a non-2xx answer whose body is not JSON
\* ("notjson") or is the registry's JSON error document, which has no "tags"
\* ("errdoc"), or a 2xx answer with the tags ("json").  The status code is not
\* looked at: the body is decoded whatever it is.
FetchAllTags(r, answer) ==
    IF answer.kind = "neterr" THEN [err |-> NetErr, tags |-> <<>>]
    ELSE IF answer.kind = "notjson" THEN [err |-> DecodeErr, tags |-> <<>>]
    ELSE [err |-> Nil, tags |-> answer.tags]

\* The Docker-Content-Digest header of the registry's answer to
\* GET .../manifests/<tag>: the digest of that tag for a 2xx answer, absent otherwise.
Filter(s) == SelectSeq(s, IsAlnum)
DigestOf(tag) == Sha \o Filter(tag)
ManifestHeader(tag, status) == IF status = 200 THEN DigestOf(tag) ELSE <<>>

\* repository.fetchImageDigest(tag) given the registry's answer: resp.Header.Get of
\* the digest header whatever the status code, "" when the header is absent.
FetchImageDigest(r, tag, answer) ==
    IF answer = "neterr" THEN [err |-> NetErr, digest |-> <<>>]
    ELSE [err |-> Nil, digest |-> ManifestHeader(tag, IF answer = "ok" THEN 200 ELSE 404)]

-----------------------------------------------------------------------------
(* updateDockerTags: the rewrite callback *)


\* The digest asked for the tag the file had.
DigestTagOriginal(originalTag, newTag) == originalTag

\* The tag the callback asks the digest of.
DigestTag(originalTag, newTag) == newTag


\* A callback that assigns replaceErr on every path, so that a later success clears
\* an earlier failure.
NextReplaceErrLast(old, err) == err

\* What the assignments to replaceErr leave in it after one invocation that ended
\* with err (nil for an invocation that reached "return groups" at the end).
NextReplaceErr(old, err) == IF err # Nil THEN err ELSE old

\* The record of one invocation: stage is the lookup it got to ("init", "resolve",
\* "digest") or "done", tagsKind the kind of answer fetchAllTags got ("none" when
\* it was not called), digAnswer the answer fetchImageDigest got.
Entry(groups, r, stage, tagsKind, newTag, digAnswer, digest, err) ==
    [repositoryName |-> groups[1],
     name           |-> r.name,
     constraint     |-> IF "constraint" \in DOMAIN r THEN r.constraint ELSE NilConstraint,
     originalTag    |-> groups[2],
     stage          |-> stage,
     tagsKind       |-> tagsKind,
     newTag         |-> newTag,
     digAnswer      |-> digAnswer,
     digest         |-> digest,
     err            |-> err]

\* The callback from the check of fetchImageDigest's error on.
CallbackDigest(groups, r, auth, tagsKind, newTag, digAnswer, dg) ==
    IF dg.err # Nil
    THEN [groups |-> groups, err |-> Wrap(dg.err, <<Lit("when fetching image digest for "),
                                                     r.name, newTag>>),
          auth |-> auth, tags |-> tagsKind # "none",
          entry |-> Entry(groups, r, "digest", tagsKind, newTag, digAnswer, <<>>,
                          Wrap(dg.err, <<Lit("when fetching image digest for "),
                                         r.name, newTag>>))]
    ELSE [groups |-> [groups EXCEPT ![2] = newTag, ![3] = dg.digest],
          err |-> Nil, auth |-> auth, tags |-> tagsKind # "none",
          entry |-> Entry(groups, r, "done", tagsKind, newTag, digAnswer, dg.digest, Nil)]

\* The callback from the check of findLatestSemverTag's error on.
CallbackLatest(groups, r, auth, tagsKind, latest, digAnswer) ==
    IF latest.err # Nil
    THEN [groups |-> groups,
          err |-> Wrap(latest.err, <<Lit("when finding the latest semver tag for "),
                                     r.name, groups[2]>>),
          auth |-> auth, tags |-> TRUE,
          entry |-> Entry(groups, r, "resolve", tagsKind, <<>>, "none", <<>>,
                          Wrap(latest.err, <<Lit("when finding the latest semver tag for "),
                                             r.name, groups[2]>>))]
    ELSE CallbackDigest(groups, r, auth, tagsKind, latest.tag, digAnswer,
                        FetchImageDigest(r, DigestTag(groups[2], latest.tag), digAnswer))

\* The callback from "if isNonSemverTag(originalTag)" on.
CallbackTag(groups, r, auth, nonSemver, tagsAnswer, digAnswer) ==
    IF nonSemver
    THEN CallbackLatest(groups, r, auth, "none", [err |-> Nil, tag |-> groups[2]], digAnswer)
    ELSE CallbackLatest(groups, r, auth, tagsAnswer.kind,
                        FindLatestSemverTag(r, FetchAllTags(r, tagsAnswer)), digAnswer)

\* The callback from the check of newRepository's error on.
CallbackRepo(groups, nr, auth, tagsAnswer, digAnswer) ==
    IF nr.err # Nil
    THEN [groups |-> groups,
          err |-> Wrap(nr.err, <<Lit("when initializing repository "), groups[1]>>),
          auth |-> auth, tags |-> FALSE,
          entry |-> Entry(groups, nr.repo, "init", "none", <<>>, "none", <<>>,
                          Wrap(nr.err, <<Lit("when initializing repository "), groups[1]>>))]
    ELSE CallbackTag(groups, nr.repo, auth, IsNonSemverTag(groups[2]),
                     tagsAnswer, digAnswer)

\* One invocation of the callback on groups, with the answers the three lookups
\* get: the groups returned, the error recorded (nil for none), whether the token
\* and the tag list were fetched, and a record of the invocation.
Callback(cons, groups, authAnswer, tagsAnswer, digAnswer) ==
    CallbackRepo(groups,
                 NewRepository(cons, groups[1], FetchAuthToken(groups[1], authAnswer)),
                 NeedsToken(groups[1]), tagsAnswer, digAnswer)

-----------------------------------------------------------------------------
(* The inputs the model draws from *)

NumFiles == 2
MaxTags == 3
MaxLen == 7

RepoAB == <<"a", "/", "b">>
RepoU == <<"u">>
RepoQ == <<"q", ".", "i", "o", "/", "a", "/", "b">>
RepoDeep == <<"q", "/", "a", "/", "b", "/", "c">>

T100 == <<"1", ".", "0", ".", "0">>
T150 == <<"1", ".", "5", ".", "0">>
T200 == <<"2", ".", "0", ".", "0">>
Tv200 == <<"v", "2", ".", "0", ".", "0">>
T12 == <<"1", ".", "2">>
T200rc == <<"2", ".", "0", ".", "0", "-", "r", "c">>
Tlatest == <<"l", "a", "t", "e", "s", "t">>
Tbogus == <<"b", "o", "g", "u", "s">>

Ref(repo, tag, hex) == repo \o <<":">> \o tag \o <<"@">> \o Sha \o hex

\* The contents a file can start with.
Contents ==
    {<<"F", " ">> \o Ref(RepoAB, T100, <<"a", "a">>) \o <<" ", "X", "\n">>,
     Ref(RepoU, T150, <<"a", "a">>) \o <<"\n">> \o Ref(RepoQ, Tlatest, <<"b", "b">>),
     Ref(RepoDeep, T100, <<"a", "a">>),
     <<"i", "(", "\"", "f", "/", "b", "\"", ")">>}

\* The values of the --constraint flags a run can be given.
FlagConfigs ==
    {<<>>,
     << RepoU \o <<"=", "<">> \o T200 >>,
     << RepoAB \o <<"=", ">">> \o T200, RepoAB \o <<"=", "<">> \o T200 >>,
     << RepoQ \o <<"=", ">">> \o T200 >>,
     << RepoAB \o <<"=", "<", "=">> \o T200 >>,
     << RepoAB \o <<"=", "<", "x">> >>}

\* The tag lists a registry answers with.
TagLists ==
    {<<T100, T150, T200, Tbogus>>,
     <<Tv200, T100>>}

TagsAnswers ==
    {[kind |-> "neterr", tags |-> <<>>], [kind |-> "notjson", tags |-> <<>>],
     [kind |-> "errdoc", tags |-> <<>>]}
    \cup {[kind |-> "json", tags |-> l] : l \in TagLists}

\* options.filePaths: the first root holds file 1, the second root the others.
Roots == << <<1>>, [i \in 1..(NumFiles - 1) |-> i + 1] >>

-----------------------------------------------------------------------------
(* main and updateDockerTags *)

NoCall == [op |-> "none", in |-> <<>>, out |-> <<>>]

NoCounts == [x \in {} |-> 0]
Count(m, k) == IF k \in DOMAIN m THEN m[k] ELSE 0
Incr(m, k) == [x \in DOMAIN m \cup {k} |-> IF x = k THEN Count(m, k) + 1 ELSE m[x]]

\* The state of main at position p before anything ran, for the given flags, files
\* and roots.
StartAt(p, flags, pat, files, rts) ==
    /\ pc = p
    /\ flagArgs = flags
    /\ patternArg = pat
    /\ constraintArgs = <<>>
    /\ constraints = EmptyMap
    /\ roots = rts
    /\ rootIdx = 1
    /\ fileIdx = 1
    /\ cur = 0
    /\ disk = files
    /\ disk0 = files
    /\ data = <<>>
    /\ matches = <<>>
    /\ mi = 0
    /\ result = <<>>
    /\ last = 0
    /\ replaceErr = Nil
    /\ log = <<>>
    /\ fileState = [f \in DOMAIN files |-> "untouched"]
    /\ authCalls = NoCounts
    /\ tagCalls = NoCounts
    /\ fatalErr = Nil

Start(p, flags, pat, files) == StartAt(p, flags, pat, files, Roots)

Init ==
    /\ \E flags \in FlagConfigs, pat \in {"default", "malformed"},
          files \in [1..NumFiles -> Contents] : Start("start", flags, pat, files)
    /\ fn = NoCall

envVars == <<flagArgs, patternArg, roots, disk0, fn>>
fileVars == <<cur, data, matches, mi, result, last, replaceErr, log>>
callVars == <<authCalls, tagCalls>>

\* flag.Parse: every --constraint value goes through rawConstraints.Set; the flag
\* package exits on the first error.
RECURSIVE SetAll(_, _)
SetAll(rc, values) ==
    IF values = <<>> THEN [err |-> Nil, rc |-> rc]
    ELSE LET one == Set(rc, values[1])
         IN IF one.err # Nil THEN one ELSE SetAll(one.rc, Tail(values))

ParseFlags ==
    /\ pc = "start"
    /\ LET r == SetAll(<<>>, flagArgs)
       IN /\ constraintArgs' = r.rc
          /\ pc' = IF r.err # Nil THEN "fatal" ELSE "flags"
          /\ fatalErr' = r.err
    /\ UNCHANGED <<constraints, rootIdx, fileIdx, disk, fileState>>
    /\ UNCHANGED <<envVars, fileVars, callVars>>

\* constraintArgs.parse() and its log.Fatalf.
ParseConstraints ==
    /\ pc = "flags"
    /\ LET r == Parse(constraintArgs)
       IN /\ constraints' = r.out
          /\ pc' = IF r.err # Nil THEN "fatal" ELSE "constraints"
          /\ fatalErr' = IF r.err # Nil
                         THEN <<Lit("failed to parse raw constraints, err: ")>> \o r.err
                         ELSE Nil
    /\ UNCHANGED <<constraintArgs, rootIdx, fileIdx, disk, fileState>>
    /\ UNCHANGED <<envVars, fileVars, callVars>>

\* A pattern that failed to compile is used all the same.
CompilePatternUnchecked ==
    /\ pc = "constraints"
    /\ pc' = "walk"
    /\ fatalErr' = Nil
    /\ UNCHANGED <<constraintArgs, constraints, rootIdx, fileIdx, disk, fileState>>
    /\ UNCHANGED <<envVars, fileVars, callVars>>

\* regexp.Compile(*patternArg) and its log.Fatalf.
CompilePattern ==
    /\ pc = "constraints"
    /\ pc' = IF patternArg = "default" THEN "walk" ELSE "fatal"
    /\ fatalErr' = IF patternArg = "default" THEN Nil
                   ELSE <<Lit("failed to parse --pattern regex")>>
    /\ UNCHANGED <<constraintArgs, constraints, rootIdx, fileIdx, disk, fileState>>
    /\ UNCHANGED <<envVars, fileVars, callVars>>

\* The walk function up to the call of replaceAllSubmatchFunc, which starts with
\* re.FindAllSubmatchIndex.
ReadFile ==
    /\ pc = "walk"
    /\ rootIdx <= Len(roots)
    /\ fileIdx <= Len(roots[rootIdx])
    /\ LET f == roots[rootIdx][fileIdx]
       IN /\ cur' = f
          /\ \E ok \in BOOLEAN :
                IF ok
                THEN /\ data' = disk[f]
                     /\ matches' = FindAllSubmatchIndex(disk[f])
                     /\ pc' = "file"
                     /\ fatalErr' = Nil
                     /\ fileState' = [fileState EXCEPT ![f] = "open"]
                ELSE /\ data' = <<>>
                     /\ matches' = <<>>
                     /\ pc' = "fatal"
                     /\ fatalErr' = Wrap(NetErr, <<Lit("when reading file contents")>>)
                     /\ fileState' = [fileState EXCEPT ![f] = "failed"]
    /\ mi' = 0
    /\ result' = <<>>
    /\ last' = 0
    /\ replaceErr' = Nil
    /\ log' = <<>>
    /\ UNCHANGED <<constraintArgs, constraints, rootIdx, fileIdx, disk>>
    /\ UNCHANGED <<envVars, callVars>>

\* One turn of replaceAllSubmatchFunc's loop: the next match, the callback on its
\* groups with the answers the registry gives, and the splice of what it returns.
HandleMatch ==
    /\ pc = "file"
    /\ mi < Len(matches)
    /\ \E authAnswer \in {"ok", "neterr"}, tagsAnswer \in TagsAnswers,
          digAnswer \in {"ok", "notfound", "neterr"} :
          \E cb \in {Callback(constraints, GroupsOf(data, matches[mi + 1]),
                              authAnswer, tagsAnswer, digAnswer)} :
             /\ result' = AfterRepl(BeforeRepl(result, data, last, matches[mi + 1]),
                                    data, matches[mi + 1], cb.groups)
             /\ last' = matches[mi + 1][2]
             /\ mi' = mi + 1
             /\ replaceErr' = NextReplaceErr(replaceErr, cb.err)
             /\ log' = Append(log, cb.entry)
             /\ authCalls' = IF cb.auth THEN Incr(authCalls, cb.entry.name) ELSE authCalls
             /\ tagCalls' = IF cb.tags THEN Incr(tagCalls, cb.entry.name) ELSE tagCalls
    /\ UNCHANGED <<pc, constraintArgs, constraints, rootIdx, fileIdx, disk, fileState,
                   fatalErr, cur, data, matches>>
    /\ UNCHANGED envVars

\* The check of replaceErr.
ShouldWrite(err) == err = Nil

\* A walk function that returns nil for a file whose rewrite or write failed: the
\* walk goes on with the next file.
FinishFileContinue ==
    /\ pc = "file"
    /\ mi = Len(matches)
    /\ LET out == Remaining(result, data, last)
       IN /\ result' = out
          /\ \E w \in {"ok", "notopened", "truncated"} :
                /\ disk' = [disk EXCEPT ![cur] = IF ~ShouldWrite(replaceErr) \/ w = "notopened"
                                                THEN @
                                                ELSE IF w = "truncated" THEN <<>> ELSE out]
                /\ fileState' = [fileState EXCEPT
                                    ![cur] = IF ShouldWrite(replaceErr) /\ w = "ok"
                                             THEN "written" ELSE "failed"]
    /\ pc' = "walk"
    /\ fatalErr' = Nil
    /\ fileIdx' = fileIdx + 1
    /\ UNCHANGED <<constraintArgs, constraints, rootIdx>>
    /\ UNCHANGED <<cur, data, matches, mi, last, replaceErr, log>>
    /\ UNCHANGED <<envVars, callVars>>

\* The end of replaceAllSubmatchFunc and of the walk function: the bytes after the
\* last match, the check of replaceErr, ioutil.WriteFile.  A failed write leaves
\* the file as it was or truncated.
FinishFile ==
    /\ pc = "file"
    /\ mi = Len(matches)
    /\ LET out == Remaining(result, data, last)
       IN /\ result' = out
          /\ IF ~ShouldWrite(replaceErr)
             THEN /\ disk' = disk
                  /\ pc' = "fatal"
                  /\ fileState' = [fileState EXCEPT ![cur] = "failed"]
                  /\ fatalErr' = Wrap(Wrap(replaceErr,
                                           <<Lit("when replacing image tags in file")>>),
                                      <<Lit("failed to update docker tags for root")>>)
                  /\ fileIdx' = fileIdx
             ELSE \E w \in {"ok", "notopened", "truncated"} :
                     /\ disk' = [disk EXCEPT ![cur] = IF w = "ok" THEN out
                                                     ELSE IF w = "truncated" THEN <<>>
                                                     ELSE @]
                     /\ pc' = IF w = "ok" THEN "walk" ELSE "fatal"
                     /\ fileState' = [fileState EXCEPT
                                         ![cur] = IF w = "ok" THEN "written" ELSE "failed"]
                     /\ fatalErr' = IF w = "ok" THEN Nil
                                    ELSE Wrap(NetErr, <<Lit("when writing file contents")>>)
                     /\ fileIdx' = IF w = "ok" THEN fileIdx + 1 ELSE fileIdx
    /\ UNCHANGED <<constraintArgs, constraints, rootIdx>>
    /\ UNCHANGED <<cur, data, matches, mi, last, replaceErr, log>>
    /\ UNCHANGED <<envVars, callVars>>

\* filepath.Walk returned nil: the next root of "for _, root := range o.filePaths".
NextRoot ==
    /\ pc = "walk"
    /\ rootIdx <= Len(roots)
    /\ fileIdx > Len(roots[rootIdx])
    /\ rootIdx' = rootIdx + 1
    /\ fileIdx' = 1
    /\ UNCHANGED <<pc, constraintArgs, constraints, disk, fileState, fatalErr>>
    /\ UNCHANGED <<envVars, fileVars, callVars>>

\* main returns.
Exit ==
    /\ pc = "walk"
    /\ rootIdx > Len(roots)
    /\ pc' = "done"
    /\ UNCHANGED <<constraintArgs, constraints, rootIdx, fileIdx, disk, fileState, fatalErr>>
    /\ UNCHANGED <<envVars, fileVars, callVars>>

Next ==
    \/ ParseFlags
    \/ ParseConstraints
    \/ CompilePattern
    \/ ReadFile
    \/ HandleMatch
    \/ FinishFile
    \/ NextRoot
    \/ Exit

Spec == Init /\ [][Next]_vars

-----------------------------------------------------------------------------
(* main over every way the files can be spread over the roots *)

\* The roots that give the walk order 1, 2, ..., NumFiles with a new root after
\* every file of C.
RECURSIVE LayoutFrom(_, _, _)
LayoutFrom(f, C, root) ==
    IF f > NumFiles THEN <<root>>
    ELSE IF (f - 1) \in C THEN <<root>> \o LayoutFrom(f + 1, C, <<f>>)
    ELSE LayoutFrom(f + 1, C, Append(root, f))

Layouts == {LayoutFrom(2, C, <<1>>) : C \in SUBSET (1..(NumFiles - 1))}

InitWalk ==
    /\ \E files \in [1..NumFiles -> Contents], rts \in Layouts :
          StartAt("start", <<>>, "default", files, rts)
    /\ fn = NoCall

SpecWalk == InitWalk /\ [][Next]_vars

-----------------------------------------------------------------------------
(* findLatestSemverTag on its own: every tag list of at most MaxTags tags, and  *)
(* the lists of LongLen tags that parse to few versions                        *)

LongLen == 7

TagUniverse == {T100, T150, T200, Tv200, T12, T200rc, Tbogus}

RECURSIVE SeqsUpTo(_, _)
SeqsUpTo(S, n) ==
    IF n = 0 THEN {<<>>}
    ELSE LET shorter == SeqsUpTo(S, n - 1)
         IN shorter \cup {Append(q, x) : q \in {t \in shorter : Len(t) = n - 1}, x \in S}

ConstraintUniverse ==
    {NilConstraint, NewConstraint(<<"<">> \o T200), NewConstraint(<<">">> \o T200),
     NewConstraint(<<">">> \o T100)}

\* No program runs: the files are there and main has not started.
Idle == \E files \in [1..NumFiles -> {<<>>}] : Start("idle", <<>>, "default", files)

\* The tags of the long lists: two spellings of one version and a lower version.
LongTags == {T100, T200, Tv200}

LongLists == [1..LongLen -> LongTags]

InitResolve ==
    /\ Idle
    /\ \/ \E tags \in SeqsUpTo(TagUniverse, MaxTags), c \in ConstraintUniverse,
             n \in {RepoAB, QualifyRepository(RepoU)} :
             fn = [op  |-> "call", build |-> "none",
                   in  |-> [r |-> [name |-> n, constraint |-> c], tags |-> tags],
                   out |-> [err |-> Nil, tag |-> <<>>]]
       \/ \E tags \in LongLists, c \in {NilConstraint, NewConstraint(<<">">> \o T100)} :
             fn = [op  |-> "call", build |-> "none",
                   in  |-> [r |-> [name |-> RepoAB, constraint |-> c], tags |-> tags],
                   out |-> [err |-> Nil, tag |-> <<>>]]

\* r.findLatestSemverTag(originalTag) with a registry that answers with in.tags, in
\* a program built with one of the releases.
Resolve ==
    /\ fn.op = "call"
    /\ \E build \in Builds :
          fn' = [fn EXCEPT !.op = "returned", !.build = build,
                           !.out = FindLatestSemverTagOn(build, fn.in.r,
                                                         [err |-> Nil, tags |-> fn.in.tags])]
    /\ UNCHANGED <<pc, flagArgs, constraintArgs, patternArg, constraints, roots, rootIdx,
                   fileIdx, disk, disk0, fileState, fatalErr>>
    /\ UNCHANGED <<fileVars, callVars>>

NextResolve == Resolve

SpecResolve == InitResolve /\ [][NextResolve]_vars

-----------------------------------------------------------------------------
(* replaceAllSubmatchFunc on its own: every buffer of at most MaxLen bytes with  *)
(* the index tables a pattern of at most three groups can give for it           *)

Letters == <<"a", "b", "c", "d", "e", "f", "g", "h", "i", "j">>

\* The buffer of n bytes, all different.
Buffer(n) == SubSeq(Letters, 1, n)

\* What regexp reports for one group of a match from a to b: a span inside the
\* match, or -1, -1 for a group that took no part in it.
GroupSpans(a, b) == {p \in (a..b) \X (a..b) : p[1] <= p[2]} \cup {<<-1, -1>>}

\* The matches from a to b of a pattern with n <= 2 groups placed in any way
\* (nested, one before the other, absent).
AnyMatches(a, b, n) ==
    IF n = 0 THEN {<<a, b>>}
    ELSE IF n = 1 THEN {<<a, b>> \o g : g \in GroupSpans(a, b)}
    ELSE {<<a, b>> \o g \o h : g \in GroupSpans(a, b), h \in GroupSpans(a, b)}

\* The nondecreasing sequences of k offsets between lo and hi.
RECURSIVE NonDec(_, _, _)
NonDec(lo, hi, k) ==
    IF k = 0 THEN {<<>>}
    ELSE UNION {{<<x>> \o t : t \in NonDec(x, hi, k - 1)} : x \in lo..hi}

\* A match of a pattern with three groups one after the other, as the default
\* pattern's (g1):(g2)@(g3).
Ordered3(m) ==
    /\ Len(m) = 8
    /\ m[1] <= m[3] /\ m[3] <= m[4] /\ m[4] <= m[5] /\ m[5] <= m[6]
    /\ m[6] <= m[7] /\ m[7] <= m[8] /\ m[8] <= m[2]

OrderedMatches(a, b) == {<<a, b>> \o t : t \in NonDec(a, b, 6)}

Shift(m, k) == [i \in 1..Len(m) |-> m[i] + k]

\* The tables FindAllSubmatchIndex is taken to return for a buffer of n bytes: one
\* match of a pattern with up to two groups placed in any way, one match of a
\* pattern with three groups in order, or two matches of such a pattern, the second
\* shaped as the first.
Tables(n) ==
    {<<>>}
    \cup UNION {UNION {{<<m>> : m \in AnyMatches(p[1], p[2], g)} : g \in 0..2} :
                p \in {q \in (0..n) \X (0..n) : q[1] <= q[2]}}
    \cup UNION {{<<m>> : m \in OrderedMatches(p[1], p[2])} :
                p \in {q \in (0..n) \X (0..n) : q[1] <= q[2]}}
    \cup UNION {UNION {{<<m, Shift(m, k)>> : m \in OrderedMatches(p[1], p[2])} :
                       k \in (p[2] - p[1])..(n - p[2])} :
                p \in {q \in (0..n) \X (0..n) : q[1] < q[2]}}

\* The callbacks: the one that changes nothing, and the one that replaces the
\* second group by nothing, by one byte, by a value longer than any group.
Callbacks ==
    {[kind |-> "same", val |-> <<>>]}
    \cup {[kind |-> "tag", val |-> v] :
            v \in {<<>>, <<"Z">>, [i \in 1..(MaxLen + 1) |-> "Z"]}}

InitRewrite ==
    /\ Idle
    /\ \E n \in 0..MaxLen :
          \E t \in Tables(n), cb \in Callbacks :
             fn = [op  |-> "call",
                   in  |-> [src |-> Buffer(n), matches |-> t, cb |-> cb],
                   out |-> <<>>, calls |-> <<>>]

\* replaceAllSubmatchFunc(re, src, repl, -1)
Rewrite ==
    /\ fn.op = "call"
    /\ fn' = [fn EXCEPT !.op = "returned",
                        !.out = ReplaceAllSubmatchFunc(fn.in.matches, fn.in.src, fn.in.cb),
                        !.calls = Invocations(fn.in.matches, fn.in.src, fn.in.cb)]
    /\ UNCHANGED <<pc, flagArgs, constraintArgs, patternArg, constraints, roots, rootIdx,
                   fileIdx, disk, disk0, fileState, fatalErr>>
    /\ UNCHANGED <<fileVars, callVars>>

NextRewrite == Rewrite

SpecRewrite == InitRewrite /\ [][NextRewrite]_vars

-----------------------------------------------------------------------------
(* The default pattern on its own: lines of at most MaxRefs references          *)

MaxRefs == 2

\* The repository, tag and digest of a reference of a line.
RefParts ==
    {[repo |-> r, tag |-> t, hex |-> <<"c", "0">>] :
        r \in {RepoU, RepoAB, <<"q", ".", "i", "o", "/", "a", "-", "b">>},
        t \in {T12, Tlatest}}

RefText(p) == Ref(p.repo, p.tag, p.hex)

\* What a line has before its first reference and after its last one: nothing, a
\* Dockerfile's words, a YAML key, the end of the line.
Pres == {<<>>, <<"F", " ">>, <<"k", ":", " ">>}
Posts == {<<>>, <<" ", "A", " ", "u">>, <<"\n">>}

\* What separates two references of a line.
Seps == {<<" ">>, <<"\n">>}

\* Texts without a reference: the file path of Test_pattern, a reference without
\* its digest, a digest without a tag.
NoRefs ==
    {<<"i", "(", "\"", "f", "/", "b", "\"", ")">>,
     RepoAB \o <<":">> \o T12,
     RepoAB \o <<"@">> \o Sha \o <<"c", "0">>}

\* The references refs[k..], each followed by sep but the last.
RECURSIVE Joined(_, _, _)
Joined(refs, sep, k) ==
    IF k > Len(refs) THEN <<>>
    ELSE RefText(refs[k]) \o (IF k < Len(refs) THEN sep ELSE <<>>) \o Joined(refs, sep, k + 1)

LineText(pre, refs, sep, post) == pre \o Joined(refs, sep, 1) \o post

InitMatch ==
    /\ Idle
    /\ \/ \E refs \in SeqsUpTo(RefParts, MaxRefs) \ {<<>>}, pre \in Pres, post \in Posts,
             sep \in Seps :
             fn = [op  |-> "call",
                   in  |-> [pre |-> pre, refs |-> refs, sep |-> sep, post |-> post,
                            src |-> LineText(pre, refs, sep, post)],
                   out |-> <<>>]
       \/ \E t \in NoRefs :
             fn = [op  |-> "call",
                   in  |-> [pre |-> t, refs |-> <<>>, sep |-> <<>>, post |-> <<>>, src |-> t],
                   out |-> <<>>]

\* regexp.MustCompile(defaultPattern).FindAllSubmatchIndex(src, -1)
Match ==
    /\ fn.op = "call"
    /\ fn' = [fn EXCEPT !.op = "returned", !.out = FindAllSubmatchIndex(fn.in.src)]
    /\ UNCHANGED <<pc, flagArgs, constraintArgs, patternArg, constraints, roots, rootIdx,
                   fileIdx, disk, disk0, fileState, fatalErr>>
    /\ UNCHANGED <<fileVars, callVars>>

NextMatch == Match

SpecMatch == InitMatch /\ [][NextMatch]_vars

-----------------------------------------------------------------------------
(* The claims *)

Returned == fn.op = "returned"

\* The invocations of the current file that recorded an error.
FailedEntries == {k \in 1..Len(log) : log[k].err # Nil}

\* C1: if a lookup (credential, tag list, version resolution, digest) returns an
\* error for at least one match of a file, whatever the other matches do, the file
\* keeps on disk the bytes that were read and its processing ends in an error.
C1_FailedMatchNeverWritten ==
    (cur # 0 /\ FailedEntries # {}) =>
        /\ disk[cur] = disk0[cur]
        /\ fileState[cur] # "written"
        /\ (pc # "file" => pc = "fatal" /\ fatalErr # Nil)

\* A file of two matches whose first lookup failed and whose second succeeded,
\* after the walk function returned.
C1_Witness ==
    /\ pc = "fatal"
    /\ Len(log) = 2
    /\ log[1].err # Nil
    /\ log[2].err = Nil

\* C2: with a callback that returns every group unchanged, replaceAllSubmatchFunc
\* returns the input buffer, whatever the structure of the pattern's groups.
C2_SameGroupsSameBuffer ==
    (Returned /\ fn.in.cb.kind = "same") => fn.out = fn.in.src

\* The bytes of src from pos on, with the second group of every match from the
\* k-th on replaced by val and nothing else changed.
RECURSIVE OnlyTagReplaced(_, _, _, _, _)
OnlyTagReplaced(src, ms, val, k, pos) ==
    IF k > Len(ms) THEN Slice(src, pos, Len(src))
    ELSE Slice(src, pos, ms[k][5]) \o val \o OnlyTagReplaced(src, ms, val, k + 1, ms[k][6])

\* C3: for matches with three ordered, non-overlapping groups and a callback that
\* replaces only the second group, by a value of any length, the output is the
\* input with the span of that group replaced: the first group, the third group,
\* the separators and the bytes outside the matches stay as they are, in order.
C3_OnlyTagSpanDiffers ==
    (/\ Returned
     /\ fn.in.cb.kind = "tag"
     /\ \A k \in 1..Len(fn.in.matches) : Ordered3(fn.in.matches[k]))
    => fn.out = OnlyTagReplaced(fn.in.src, fn.in.matches, fn.in.cb.val, 1, 0)

\* A match with bytes before it, after it and between its three non-empty groups,
\* whose second group was replaced by a longer value.
C3_Witness ==
    /\ Returned
    /\ fn.in.cb.kind = "tag"
    /\ Len(fn.in.matches) = 1
    /\ LET m == fn.in.matches[1]
       IN /\ Ordered3(m)
          /\ 0 < m[1] /\ m[2] < Len(fn.in.src)
          /\ m[3] < m[4] /\ m[4] < m[5] /\ m[5] < m[6] /\ m[6] < m[7] /\ m[7] < m[8]
          /\ Len(fn.in.cb.val) > m[6] - m[5]
    /\ fn.out # fn.in.src
    /\ fn.out # Panic

\* The bytes of src from pos on in which every reference from the k-th on has its
\* repository as in src, the tag that was resolved for it, and the registry's digest
\* header for that resolved tag.
RECURSIVE ExpectedFile(_, _, _, _, _)
ExpectedFile(src, ms, lg, k, pos) ==
    IF k > Len(ms) THEN Slice(src, pos, Len(src))
    ELSE Slice(src, pos, ms[k][1])
         \o Slice(src, ms[k][3], ms[k][4]) \o <<":">> \o lg[k].newTag \o <<"@">>
         \o ManifestHeader(lg[k].newTag, IF lg[k].digAnswer = "ok" THEN 200 ELSE 404)
         \o ExpectedFile(src, ms, lg, k + 1, ms[k][2])

FileWritten == cur # 0 /\ fileState[cur] = "written"

\* C4: a written file holds, for every match, the repository unchanged, the tag
\* version resolution returned and the digest the registry gave for that resolved
\* tag, with the text before, between and after the matches as it was read.
C4_WrittenReference ==
    FileWritten => disk[cur] = ExpectedFile(data, matches, log, 1, 0)

\* A written file whose first reference has text before and after it and was moved
\* to another tag, with the digest the registry has for it.
C4_Witness ==
    /\ FileWritten
    /\ Len(log) >= 1
    /\ log[1].newTag # log[1].originalTag
    /\ log[1].digAnswer = "ok"
    /\ matches[1][1] > 0
    /\ matches[1][2] < Len(data)

\* The candidates of a tag list that parse and that the constraint accepts.
Accepted(tags, c) ==
    {i \in 1..Len(tags) : NewVersion(tags[i]).ok /\ (c.ok => Check(c, NewVersion(tags[i])))}

Parseable(tags) == SelectSeq(tags, LAMBDA t : NewVersion(t).ok)

\* C5: findLatestSemverTag returns a string that is an element of the candidate
\* list in its own spelling, that parses, that the constraint accepts, and that is
\* not below any accepted candidate; the unparseable candidates change nothing.
C5_LatestIsLiteralMaximum ==
    Returned =>
        /\ fn.out.err = Nil =>
              /\ \E i \in Accepted(fn.in.tags, fn.in.r.constraint) :
                    fn.in.tags[i] = fn.out.tag
              /\ \A j \in Accepted(fn.in.tags, fn.in.r.constraint) :
                    Compare(NewVersion(fn.out.tag), NewVersion(fn.in.tags[j])) >= 0
        /\ fn.out = FindLatestSemverTagOn(fn.build, fn.in.r,
                                          [err |-> Nil, tags |-> Parseable(fn.in.tags)])

\* A constrained resolution over a list with an unparseable tag that returned a tag
\* spelled with its "v", which is not the first accepted candidate.
C5_Witness ==
    /\ Returned
    /\ fn.in.r.constraint.ok
    /\ \E i \in 1..Len(fn.in.tags) : ~NewVersion(fn.in.tags[i]).ok
    /\ fn.out.err = Nil
    /\ fn.out.tag = Tv200
    /\ fn.in.tags[1] # Tv200
    /\ 1 \in Accepted(fn.in.tags, fn.in.r.constraint)

\* The offset in the written file of the tag of the k-th reference: its offset in
\* the bytes read, moved by the change of length of the tags and digests before it.
RECURSIVE Moved(_)
Moved(k) ==
    IF k = 0 THEN 0
    ELSE Moved(k - 1)
         + Len(log[k].newTag) - (matches[k][6] - matches[k][5])
         + Len(log[k].digest) - (matches[k][8] - matches[k][7])

WrittenTagStart(k) == matches[k][5] + Moved(k - 1)

\* C6: a reference whose tag does not parse as a semantic version is written with
\* that same tag, between the ':' and the '@', and no tag list is asked for.
C6_OpaqueTagKept ==
    FileWritten =>
        \A k \in 1..Len(log) :
            ~NewVersion(log[k].originalTag).ok =>
                /\ SliceOK(disk[cur], WrittenTagStart(k) - 1,
                           WrittenTagStart(k) + Len(log[k].originalTag) + 1)
                /\ Slice(disk[cur], WrittenTagStart(k) - 1,
                         WrittenTagStart(k) + Len(log[k].originalTag) + 1)
                   = <<":">> \o log[k].originalTag \o <<"@">>
                /\ log[k].tagsKind = "none"

\* A written file with a reference whose tag is opaque, in a run that configures a
\* constraint.
C6_Witness ==
    /\ FileWritten
    /\ DOMAIN constraints # {}
    /\ \E k \in 1..Len(log) : ~NewVersion(log[k].originalTag).ok

\* C7: the constraint configured for image name X is the one version resolution
\* uses for every reference whose repository group is X, with or without a '/'.
C7_ConfiguredConstraintApplied ==
    \A k \in 1..Len(log) :
        (log[k].stage # "init" /\ NewVersion(log[k].originalTag).ok) =>
            log[k].constraint = Lookup(constraints, log[k].repositoryName)

NoneAccepted == Accepted(fn.in.tags, fn.in.r.constraint) = {}

\* C8 as stated: when no candidate parses and is accepted, the resolution fails
\* with an error naming the repository and, when one is configured, the constraint
\* string.
C8_ErrorNamesConstraint ==
    (Returned /\ NoneAccepted) =>
        /\ fn.out.err # Nil
        /\ Names(fn.out.err, fn.in.r.name)
        /\ (fn.in.r.constraint.ok => Names(fn.out.err, fn.in.r.constraint.raw))

\* C8 as amended: when no candidate parses and is accepted, the resolution fails
\* with an error naming the repository; the constraint string is never in it.
C8_ErrorNamesRepository ==
    (Returned /\ NoneAccepted) =>
        /\ fn.out.err # Nil
        /\ Names(fn.out.err, fn.in.r.name)
        /\ (fn.in.r.constraint.ok => ~Names(fn.out.err, fn.in.r.constraint.raw))

\* A resolution under a constraint that rejects every parseable candidate.
C8_Witness ==
    /\ Returned
    /\ fn.in.r.constraint.ok
    /\ NoneAccepted
    /\ \E i \in 1..Len(fn.in.tags) : NewVersion(fn.in.tags[i]).ok

\* The invocation met a registry answer that was not 2xx.
Non2xx(e) == e.tagsKind \in {"notjson", "errdoc"} \/ e.digAnswer = "notfound"

\* C9: when the registry answers a tag-list or digest request with a non-2xx
\* response, the file fails with an error and is not written.
C9_Non2xxNeverWritten ==
    (cur # 0 /\ \E k \in 1..Len(log) : Non2xx(log[k])) =>
        /\ disk[cur] = disk0[cur]
        /\ fileState[cur] # "written"
        /\ (pc # "file" => pc = "fatal" /\ fatalErr # Nil)

\* C10 as stated: over a run the credential provider and the tag-list provider are
\* each called at most once per repository name.
C10_AtMostOncePerRepository ==
    /\ \A n \in DOMAIN authCalls : authCalls[n] <= 1
    /\ \A n \in DOMAIN tagCalls : tagCalls[n] <= 1

\* The repository name has fewer than three parts: parseRegistry puts it on Docker
\* Hub.
OnHub(name) == Len(Split(name, "/")) < 3

\* C10 as amended: every invocation of the callback fetches again: a token when the
\* repository is on Docker Hub, and the tag list when the repository was set up and
\* the original tag parses, however often the repository was seen before.
C10_FetchedPerMatch ==
    [][mi' = mi + 1 =>
          LET e == log'[Len(log')]
          IN /\ OnHub(e.name) =>
                   Count(authCalls', e.name) = Count(authCalls, e.name) + 1
             /\ (e.stage # "init" /\ NewVersion(e.originalTag).ok) =>
                   Count(tagCalls', e.name) = Count(tagCalls, e.name) + 1]_vars

\* A repository whose token and tag list were both fetched twice.
C10_Witness ==
    \E n \in DOMAIN authCalls :
        authCalls[n] >= 2 /\ Count(tagCalls, n) >= 2

\* The index table with one match for every reference of the line from the k-th on,
\* the k-th starting at offset pos: the match is the reference, its groups the
\* repository, the tag and the digest.
RECURSIVE ReferenceMatches(_, _, _, _)
ReferenceMatches(refs, sep, k, pos) ==
    IF k > Len(refs) THEN <<>>
    ELSE LET e1 == pos + Len(refs[k].repo)
             e2 == e1 + 1 + Len(refs[k].tag)
             e3 == e2 + 1 + Len(Sha) + Len(refs[k].hex)
         IN << <<pos, e3, pos, e1, e1 + 1, e2, e2 + 1, e3>> >>
            \o ReferenceMatches(refs, sep, k + 1, e3 + Len(sep))

\* C11: in every match of the default pattern the tag group holds no '@', and a
\* line of two references separated by a space gives two matches, one for each
\* reference with its repository, tag and digest.
C11_TagEndsAtNextAt ==
    Returned =>
        /\ \A k \in 1..Len(fn.out) :
              ~Contains(Slice(fn.in.src, fn.out[k][5], fn.out[k][6]), "@")
        /\ (Len(fn.in.refs) = 2 /\ fn.in.sep = <<" ">>) =>
              fn.out = ReferenceMatches(fn.in.refs, fn.in.sep, 1, Len(fn.in.pre))

\* The reference of the line stands between spaces or the ends of the text.
Delimited ==
    /\ fn.in.pre = <<>> \/ fn.in.pre[Len(fn.in.pre)] = " "
    /\ fn.in.post = <<>> \/ fn.in.post[1] = " "

\* C12: a text that holds one reference between spaces or the ends of the text
\* gives one match, which is the reference without the words around it, with the
\* groups repository, tag and digest; a text without a reference gives no match.
C12_OneReferenceOneMatch ==
    Returned =>
        /\ (Len(fn.in.refs) = 1 /\ Delimited) =>
              fn.out = ReferenceMatches(fn.in.refs, fn.in.sep, 1, Len(fn.in.pre))
        /\ Len(fn.in.refs) = 0 => fn.out = <<>>

\* The accepted candidates that no accepted candidate is above.
Maximal(tags, c) ==
    {i \in Accepted(tags, c) :
        \A j \in Accepted(tags, c) : Compare(NewVersion(tags[i]), NewVersion(tags[j])) >= 0}

First(I) == CHOOSE i \in I : \A j \in I : i <= j

\* C13: when several accepted candidates parse to the maximal version, the
\* resolution returns the one that comes first in the tag list, whatever the length
\* of the list and the release of Go the program was built with.
C13_FirstOccurrenceWins ==
    (Returned /\ fn.out.err = Nil) =>
        fn.out.tag = fn.in.tags[First(Maximal(fn.in.tags, fn.in.r.constraint))]

\* C14: replaceAllSubmatchFunc calls the callback once for every match of the
\* table, in the order of the matches, whatever the pattern.
C14_OncePerMatch ==
    Returned => fn.calls = [k \in 1..Len(fn.in.matches) |-> k]

\* Something was done to a file or asked of a registry.
Touched ==
    \/ cur # 0
    \/ \E f \in DOMAIN fileState : fileState[f] # "untouched"
    \/ disk # disk0
    \/ authCalls # NoCounts
    \/ tagCalls # NoCounts

\* C15: no file is read or written and no registry is asked before every
\* --constraint value was split and parsed and the pattern compiled, all without an
\* error; a malformed one ends the run with nothing touched.
C15_ParsedBeforeAnyFile ==
    /\ Touched =>
          /\ SetAll(<<>>, flagArgs).err = Nil
          /\ Parse(SetAll(<<>>, flagArgs).rc).err = Nil
          /\ constraints = Parse(SetAll(<<>>, flagArgs).rc).out
          /\ patternArg = "default"
    /\ (pc = "fatal" /\ ~Touched) => fatalErr # Nil

\* A run with constraints that parse and a pattern that does not, ended with its
\* files as they were.
C15_Witness ==
    /\ pc = "fatal"
    /\ patternArg = "malformed"
    /\ DOMAIN constraints # {}
    /\ ~Touched
    /\ \E f \in DOMAIN disk : FindAllSubmatchIndex(disk[f]) # <<>>

\* The files in the order the walks of the roots visit them.
RECURSIVE WalkOrder(_)
WalkOrder(k) == IF k > Len(roots) THEN <<>> ELSE roots[k] \o WalkOrder(k + 1)

\* A file is read only when every file before it in the walk order was written, and
\* a file that was not read is as it was.
OneAtATime ==
    /\ \A k \in 1..Len(WalkOrder(1)) :
          fileState[WalkOrder(1)[k]] # "untouched" =>
              \A j \in 1..(k - 1) : fileState[WalkOrder(1)[j]] = "written"
    /\ \A f \in DOMAIN fileState : fileState[f] = "untouched" => disk[f] = disk0[f]
    /\ \A f \in DOMAIN fileState : fileState[f] = "failed" => pc = "fatal"

\* A step is never taken after the run failed or ended, and a written file stays
\* as it was written.
StopsAndKeeps ==
    /\ pc \notin {"fatal", "done"}
    /\ \A f \in DOMAIN fileState :
          fileState[f] = "written" => (fileState'[f] = "written" /\ disk'[f] = disk[f])

\* C16: files are processed one at a time in the walk order of the roots in the
\* order of the arguments; a file is written before the next one is read; at the
\* first file that fails the run stops, the later files of the root and the later
\* roots untouched, the earlier files as they were rewritten.
C16_SequentialStopAtFirstFailure == []OneAtATime /\ [][StopsAndKeeps]_vars

\* A root of two files or more: the first was rewritten to other contents, the
\* rewrite of the second failed after a lookup error, and the run is over.
C16_Witness ==
    /\ Len(roots[1]) >= 2
    /\ pc = "fatal"
    /\ cur = roots[1][2]
    /\ fileState[cur] = "failed"
    /\ FailedEntries # {}
    /\ fileState[roots[1][1]] = "written"
    /\ disk[roots[1][1]] # disk0[roots[1][1]]

====
